---- MODULE Spec2Model ----
(***************************************************************************)
(* Model of python/datasetsAnnotator.py: the annotation run that walks the *)
(* datasets catalog and, for every dataset directory found on disk, either *)
(* creates dataset.json (createDatasetJSONFile) or adjusts its             *)
(* download_info (checkDownloadInfo).                                      *)
(*                                                                         *)
(* Python dictionaries are functions from a set of string keys; a Python   *)
(* call is an operator that returns a record whose field exc names the     *)
(* exception that left the call ("none" when it returned).                 *)
(***************************************************************************)
EXTENDS Integers, Sequences, FiniteSets, TLC

VARIABLES catalog, json_list, fs, i, pc, exc, run, log, fs1

vars == <<catalog, json_list, fs, i, pc, exc, run, log, fs1>>

\* ---------------------------------------------------------------- bounds
\* artifact files per dataset directory: 0..MaxFiles
MaxFiles == 2
\* stored downloaded / Downloaded values: 0..MaxStored
MaxStored == 2
\* download URLs per catalog record: 0..MaxURLs
MaxURLs == 2

\* ------------------------------------------------------ python dictionaries
Has(d, k) == k \in DOMAIN d

Put(d, k, v) == [x \in (DOMAIN d) \cup {k} |-> IF x = k THEN v ELSE d[x]]

Del(d, k) == [x \in (DOMAIN d) \ {k} |-> d[x]]

EmptyDict == <<>>

\* ------------------------------------------------------------- file system
\* A dataset directory: whether it exists, how many artifact files it holds,
\* whether dataset.json exists in it, and the content of dataset.json
\* (valid: it parses as JSON; doc: the parsed dictionary).
NoFile == [valid |-> FALSE, doc |-> EmptyDict]

NoDir == [exists |-> FALSE, artifacts |-> 0, json |-> FALSE, file |-> NoFile]

\* number of entries of the directory, dataset.json included
Entries(dir) == dir.artifacts + (IF dir.json THEN 1 ELSE 0)

\* len(os.scandir(path)): os.scandir raises FileNotFoundError for a missing
\* directory; for an existing one it returns an iterator, which has no
\* __len__, so len() raises TypeError.  No directory yields a number.
len_scandir(dir) ==
    IF ~dir.exists
    THEN [exc |-> "FileNotFoundError", val |-> 0]
    ELSE [exc |-> "TypeError", val |-> 0]

\* ------------------------------------------------------------- addMetaTags
MetaTags == <<"dataset_id", "title", "description", "author", "tags">>

RECURSIVE CopyTags(_, _, _)
CopyTags(dataset, dataset_json, k) ==
    IF k > Len(MetaTags) THEN dataset_json
    ELSE CopyTags(dataset,
                  IF Has(dataset, MetaTags[k])
                  THEN Put(dataset_json, MetaTags[k], dataset[MetaTags[k]])
                  ELSE dataset_json,
                  k + 1)

addMetaTags(dataset, dataset_json) == CopyTags(dataset, dataset_json, 1)

\* --------------------------------------------------------- addDownloadInfo
addDownloadInfo(dataset, dataset_json, dir) ==
    LET nfiles == len_scandir(dir) IN
    IF nfiles.exc # "none"
    THEN [exc |-> nfiles.exc, dataset_json |-> dataset_json]
    ELSE IF ~Has(dataset_json, "download_info")
    THEN [exc |-> "KeyError", dataset_json |-> dataset_json]
    ELSE LET j1 == Put(dataset_json, "download_info",
                       Put(dataset_json["download_info"], "downloaded", nfiles.val))
         IN  IF ~Has(dataset, "download")
             THEN [exc |-> "KeyError", dataset_json |-> j1]
             ELSE [exc |-> "none",
                   dataset_json |->
                       Put(j1, "download_info",
                           Put(j1["download_info"], "total_URLS",
                               Len(dataset["download"])))]

\* --------------------------------------------------- createDatasetJSONFile
\* Returns the exception, the directory as the call leaves it, and whether
\* dataset.json was written.
createDatasetJSONFile(dataset, dir) ==
    LET j0 == addMetaTags(dataset, EmptyDict)
        r  == addDownloadInfo(dataset, j0, dir)
    IN  IF r.exc # "none"
        THEN [exc |-> r.exc, dir |-> dir, wrote |-> FALSE, dataset |-> dataset]
        ELSE LET j2 == Put(r.dataset_json, "mined", FALSE) IN
             IF ~dir.exists
             THEN [exc |-> "FileNotFoundError", dir |-> dir, wrote |-> FALSE,
                   dataset |-> dataset]
             ELSE [exc |-> "none",
                   dir |-> [dir EXCEPT !.json = TRUE,
                                       !.file = [valid |-> TRUE, doc |-> j2]],
                   wrote |-> TRUE, dataset |-> dataset]

\* ------------------------------------------------------- checkDownloadInfo
\* lines 96-112: the branch taken when dataset.json has a download_info.
\* The field names are looked up in, and written to, the catalog record
\* (dataset), not the loaded document (dataset_json).
CheckFields(dataset, dataset_json, dir) ==
    IF ~Has(dataset, "download_info")
    THEN [exc |-> "KeyError", dataset |-> dataset]
    ELSE
    LET di0 == dataset["download_info"]
        legacy == Has(di0, "Downloaded")
        ndownloaded0 == IF legacy THEN di0["Downloaded"]
                        ELSE IF Has(di0, "downloaded") THEN di0["downloaded"]
                        ELSE 0
        di1 == IF legacy THEN Del(di0, "Downloaded") ELSE di0
    IN  IF legacy /\ ~Has(di1, "Total_URLS")
        THEN [exc |-> "KeyError", dataset |-> Put(dataset, "download_info", di1)]
        ELSE
        LET di2 == IF legacy THEN Del(di1, "Total_URLS") ELSE di1
            ds2 == Put(dataset, "download_info", di2)
            n   == len_scandir(dir)
        IN  IF n.exc # "none"
            THEN [exc |-> n.exc, dataset |-> ds2]
            ELSE
            LET ndownloaded == IF ndownloaded0 < n.val - 1 THEN n.val - 1
                               ELSE ndownloaded0
                di3 == Put(di2, "downloaded", ndownloaded)
                ds3 == Put(dataset, "download_info", di3)
            IN  IF ~Has(dataset, "download")
                THEN [exc |-> "KeyError", dataset |-> ds3]
                ELSE [exc |-> "none",
                      dataset |-> Put(dataset, "download_info",
                                      Put(di3, "total_URLS",
                                          Len(dataset["download"])))]

\* Variants of checkDownloadInfo.
\* dataset.json opened with mode "w" at line 88: the file is truncated and
\* json.load cannot read it.
checkDownloadInfo_truncating(dataset, dir) ==
    IF ~dir.exists
    THEN [exc |-> "FileNotFoundError", dir |-> dir, wrote |-> FALSE,
          dataset |-> dataset]
    ELSE [exc |-> "UnsupportedOperation",
          dir |-> [dir EXCEPT !.json = TRUE, !.file = NoFile],
          wrote |-> FALSE, dataset |-> dataset]

\* The stored count is raised by the artifact count instead of being
\* compared with it, and the document is written back.
checkDownloadInfo_accumulating(dataset, dir) ==
    IF ~dir.json
    THEN [exc |-> "FileNotFoundError", dir |-> dir, wrote |-> FALSE,
          dataset |-> dataset]
    ELSE IF ~dir.file.valid
    THEN [exc |-> "JSONDecodeError", dir |-> dir, wrote |-> FALSE,
          dataset |-> dataset]
    ELSE IF ~Has(dir.file.doc, "download_info")
    THEN [exc |-> "KeyError", dir |-> dir, wrote |-> FALSE, dataset |-> dataset]
    ELSE IF ~Has(dir.file.doc["download_info"], "downloaded")
    THEN [exc |-> "KeyError", dir |-> dir, wrote |-> FALSE, dataset |-> dataset]
    ELSE LET doc == dir.file.doc
             di  == doc["download_info"]
             nd  == di["downloaded"] + (Entries(dir) - 1)
         IN  [exc |-> "none",
              dir |-> [dir EXCEPT !.file =
                         [valid |-> TRUE,
                          doc |-> Put(doc, "download_info",
                                      Put(di, "downloaded", nd))]],
              wrote |-> TRUE, dataset |-> dataset]

checkDownloadInfo(dataset, dir) ==
    IF ~dir.json
    THEN [exc |-> "FileNotFoundError", dir |-> dir, wrote |-> FALSE,
          dataset |-> dataset]
    ELSE IF ~dir.file.valid
    THEN [exc |-> "JSONDecodeError", dir |-> dir, wrote |-> FALSE,
          dataset |-> dataset]
    ELSE
    LET dataset_json == dir.file.doc IN
    IF Has(dataset_json, "download_info")
    THEN LET r == CheckFields(dataset, dataset_json, dir) IN
         IF r.exc # "none"
         THEN [exc |-> r.exc, dir |-> dir, wrote |-> FALSE, dataset |-> r.dataset]
         ELSE [exc |-> "none",
               dir |-> [dir EXCEPT !.file = [valid |-> TRUE, doc |-> dataset_json]],
               wrote |-> TRUE, dataset |-> r.dataset]
    ELSE LET r == addDownloadInfo(dataset, dataset_json, dir) IN
         IF r.exc # "none"
         THEN [exc |-> r.exc, dir |-> dir, wrote |-> FALSE, dataset |-> dataset]
         ELSE [exc |-> "none",
               dir |-> [dir EXCEPT !.file = [valid |-> TRUE, doc |-> r.dataset_json]],
               wrote |-> TRUE, dataset |-> dataset]

\* -------------------------------------------------------------------- main
\* lines 149-159: what the loop body does with one catalog record.
\* Variants of the loop body's decision.
\* the directory test of line 149 left out
main_branch_no_directory_test(dirExists, jsonExists) ==
    IF ~jsonExists THEN "create" ELSE "repair"

\* the "not" of line 152 left out
main_branch_inverted(dirExists, jsonExists) ==
    IF dirExists
    THEN IF jsonExists THEN "create" ELSE "repair"
    ELSE "skip"

main_branch(dirExists, jsonExists) ==
    IF dirExists
    THEN IF ~jsonExists THEN "create" ELSE "repair"
    ELSE "skip"

\* dataset_directory_path of a record (lines 142-143): the directory is
\* keyed by the record's dataset_id.
DirOf(dataset) == fs[dataset["dataset_id"]]

\* One loop iteration that calls a function: the file system and the
\* in-memory record as the call leaves them; an exception leaves main.
Called(branch, r) ==
    LET dataset == json_list[i]
        id == dataset["dataset_id"]
    IN  /\ fs' = [fs EXCEPT ![id] = r.dir]
        /\ json_list' = [json_list EXCEPT ![i] = r.dataset]
        /\ log' = Append(log, [run |-> run, idx |-> i, action |-> branch,
                               dataset |-> dataset, before |-> fs[id],
                               after |-> r.dir, exc |-> r.exc,
                               wrote |-> r.wrote])
        /\ IF r.exc = "none"
           THEN i' = i + 1 /\ pc' = "loop" /\ exc' = "none"
           ELSE i' = i /\ pc' = "raised" /\ exc' = r.exc
        /\ UNCHANGED <<catalog, run, fs1>>

Skip ==
    /\ pc = "loop"
    /\ i <= Len(json_list)
    /\ LET dir == DirOf(json_list[i]) IN
       /\ main_branch(dir.exists, dir.json) = "skip"
       /\ log' = Append(log, [run |-> run, idx |-> i, action |-> "skip",
                              dataset |-> json_list[i], before |-> dir,
                              after |-> dir, exc |-> "none", wrote |-> FALSE])
    /\ i' = i + 1
    /\ UNCHANGED <<catalog, json_list, fs, pc, exc, run, fs1>>

Create ==
    /\ pc = "loop"
    /\ i <= Len(json_list)
    /\ LET dir == DirOf(json_list[i]) IN
       /\ main_branch(dir.exists, dir.json) = "create"
       /\ Called("create", createDatasetJSONFile(json_list[i], dir))

Repair ==
    /\ pc = "loop"
    /\ i <= Len(json_list)
    /\ LET dir == DirOf(json_list[i]) IN
       /\ main_branch(dir.exists, dir.json) = "repair"
       /\ Called("repair", checkDownloadInfo(json_list[i], dir))

\* lines 161-164: the loop is over.
EndLoop ==
    /\ pc = "loop"
    /\ i > Len(json_list)
    /\ pc' = "done"
    /\ UNCHANGED <<catalog, json_list, fs, i, exc, run, log, fs1>>

\* The script is started a second time over the same catalog and the same
\* directories (lines 135-138); fs1 keeps the file system the first run left.
Rerun ==
    /\ run = "first"
    /\ pc \in {"done", "raised"}
    /\ run' = "second"
    /\ json_list' = catalog
    /\ i' = 1
    /\ pc' = "loop"
    /\ exc' = "none"
    /\ fs1' = fs
    /\ UNCHANGED <<catalog, fs, log>>

Next == Skip \/ Create \/ Repair \/ EndLoop \/ Rerun

\* ------------------------------------------------------------------ inputs
AllMeta == {"title", "description", "author", "tags"}

CatalogMeta(k) == IF k = "tags" THEN <<"t1", "t2">> ELSE "catalog " \o k

StoredMetaValue(k) == IF k = "tags" THEN <<"t0">> ELSE "stored " \o k

Legacy(d, t) == [Downloaded |-> d, Total_URLS |-> t]

Canonical(d, t) == [downloaded |-> d, total_URLS |-> t]

Absent == [present |-> FALSE, val |-> EmptyDict]

Present(v) == [present |-> TRUE, val |-> v]

\* a catalog record: dataset_id, download (the URL list) and the optional
\* fields; info is an optional download_info the catalog record carries
CatalogRecord(id, keys, nurls, info) ==
    LET base == ("dataset_id" :> id) @@ ("download" :> [j \in 1..nurls |-> "url"])
                @@ [k \in keys |-> CatalogMeta(k)]
    IN  IF info.present THEN Put(base, "download_info", info.val) ELSE base

\* a stored dataset.json document
StoredDoc(keys, mined, info) ==
    LET base == [k \in keys |-> StoredMetaValue(k)]
        m == IF mined.present THEN Put(base, "mined", mined.val) ELSE base
    IN  IF info.present THEN Put(m, "download_info", info.val) ELSE m

\* the directories a dataset can have, given the documents dataset.json can hold
Dirs(docs) ==
    {NoDir}
    \cup {[exists |-> TRUE, artifacts |-> a, json |-> FALSE, file |-> NoFile] :
            a \in 0..MaxFiles}
    \cup {[exists |-> TRUE, artifacts |-> a, json |-> TRUE, file |-> NoFile] :
            a \in 0..MaxFiles}
    \cup {[exists |-> TRUE, artifacts |-> a, json |-> TRUE,
           file |-> [valid |-> TRUE, doc |-> d]] :
            a \in 0..MaxFiles, d \in docs}

StoredInfos(totals) ==
    {Absent}
    \cup {Present(Legacy(d, t)) : d \in 0..MaxStored, t \in totals}
    \cup {Present(Canonical(d, t)) : d \in 0..MaxStored, t \in totals}

\* the run over a catalog of two datasets
Records2(id) ==
    {CatalogRecord(id, AllMeta, n, info) :
        n \in 0..MaxURLs,
        info \in {Absent, Present(Legacy(0, 0)), Present(Canonical(0, 0))}}

Docs2 ==
    {StoredDoc(AllMeta, Present(TRUE), info) : info \in StoredInfos({MaxURLs + 1})}

\* the run over a catalog of one dataset, with the record and the stored
\* document drawn from wider sets
Records1(id) ==
    {CatalogRecord(id, keys, n, info) :
        keys \in {{}, {"title"}, AllMeta},
        n \in 0..MaxURLs,
        info \in StoredInfos({0})}

Docs1 ==
    {StoredDoc(keys, mined, info) :
        keys \in {{}, {"title"}, AllMeta},
        mined \in {Present(TRUE), Present(FALSE), [present |-> FALSE, val |-> FALSE]},
        info \in StoredInfos(0..(MaxURLs + 1))}

Start ==
    /\ json_list = catalog
    /\ i = 1
    /\ pc = "loop"
    /\ exc = "none"
    /\ run = "first"
    /\ log = <<>>
    /\ fs1 = fs

Init ==
    /\ \E r1 \in Records2("1"), r2 \in Records2("2") : catalog = <<r1, r2>>
    /\ fs \in [{"1", "2"} -> Dirs(Docs2)]
    /\ Start

InitOne ==
    /\ \E r1 \in Records1("1") : catalog = <<r1>>
    /\ fs \in [{"1"} -> Dirs(Docs1)]
    /\ Start

Spec == Init /\ [][Next]_vars

SpecOne == InitOne /\ [][Next]_vars

\* ================================================================= claims
\* what the log records of one loop iteration
Doc(dir) == dir.file.doc

Info(dir) == dir.file.doc["download_info"]

HasInfo(dir) == dir.json /\ dir.file.valid /\ Has(Doc(dir), "download_info")

URLCount(dataset) == Len(dataset["download"])

Max(a, b) == IF a < b THEN b ELSE a

Creates == {k \in DOMAIN log : log[k].action = "create"}

Repairs == {k \in DOMAIN log : log[k].action = "repair"}

\* C1: Create on an existing directory of N entries without dataset.json
\* writes a descriptor with downloaded = N, total_URLS = the record's URL
\* count and mined = false.
C1_CreateWritesCounts ==
    \A k \in Creates :
        LET e == log[k] IN
        (e.before.exists /\ ~e.before.json) =>
            /\ HasInfo(e.after)
            /\ Has(Info(e.after), "downloaded")
            /\ Info(e.after)["downloaded"] = Entries(e.before)
            /\ Has(Info(e.after), "total_URLS")
            /\ Info(e.after)["total_URLS"] = URLCount(e.dataset)
            /\ Has(Doc(e.after), "mined")
            /\ Doc(e.after)["mined"] = FALSE

\* C2: Repair of a descriptor whose download_info holds downloaded = d, in a
\* directory of N entries, leaves download_info.downloaded = max(d, N - 1).
C2_RepairTakesMax ==
    \A k \in Repairs :
        LET e == log[k] IN
        (HasInfo(e.before) /\ Has(Info(e.before), "downloaded")) =>
            /\ HasInfo(e.after)
            /\ Has(Info(e.after), "downloaded")
            /\ Info(e.after)["downloaded"] =
                   Max(Info(e.before)["downloaded"], Entries(e.before) - 1)

\* C3: Repair of a descriptor with a download_info leaves total_URLS equal to
\* the URL count of the catalog record, whatever was stored.
C3_RepairRederivesTotal ==
    \A k \in Repairs :
        LET e == log[k] IN
        HasInfo(e.before) =>
            /\ HasInfo(e.after)
            /\ Has(Info(e.after), "total_URLS")
            /\ Info(e.after)["total_URLS"] = URLCount(e.dataset)

\* C4: Repair of a descriptor with the legacy names Downloaded / Total_URLS
\* leaves the lowercase names only, downloaded being the legacy value raised
\* to N - 1 when lower.
C4_RepairMigratesLegacy ==
    \A k \in Repairs :
        LET e == log[k] IN
        (HasInfo(e.before) /\ Has(Info(e.before), "Downloaded")) =>
            /\ HasInfo(e.after)
            /\ DOMAIN Info(e.after) = {"downloaded", "total_URLS"}
            /\ Info(e.after)["downloaded"] =
                   Max(Info(e.before)["Downloaded"], Entries(e.before) - 1)

\* C5: Repair leaves every stored field outside download_info (title,
\* description, author, tags, mined) as it was in the stored descriptor, and
\* changes nothing else of the dataset directory.
C5_RepairPreservesFields ==
    /\ \A k \in Repairs :
          LET e == log[k] IN
          (e.before.json /\ e.before.file.valid) =>
              /\ e.after.json
              /\ e.after.file.valid
              /\ Del(Doc(e.after), "download_info") =
                     Del(Doc(e.before), "download_info")
              /\ e.after.artifacts = e.before.artifacts
    /\ log # <<>> =>
          fs[log[Len(log)].dataset["dataset_id"]] = log[Len(log)].after

\* C5 witness: Repair has acted on a stored descriptor that holds all of
\* title, description, author, tags, mined and a download_info.
C5_Witness ==
    \E k \in Repairs :
        /\ HasInfo(log[k].before)
        /\ (AllMeta \cup {"mined"}) \subseteq DOMAIN Doc(log[k].before)
        /\ Doc(log[k].before)["mined"] = TRUE

\* C6: for a record whose dataset directory does not exist the loop writes
\* nothing, creates nothing, raises nothing and goes on to the next record.
C6_SkipOnAbsentDirectory ==
    [][ (pc = "loop" /\ i <= Len(json_list) /\ ~DirOf(json_list[i]).exists) =>
          /\ fs' = fs
          /\ pc' = "loop"
          /\ exc' = "none"
          /\ i' = i + 1
          /\ log'[Len(log')].action = "skip"
          /\ ~log'[Len(log')].wrote ]_vars

\* C6 witness: a record without directory was skipped and the loop went on
\* to act on the record after it.
C6_Witness ==
    \E k \in DOMAIN log :
        /\ log[k].action = "skip"
        /\ ~log[k].before.exists
        /\ k + 1 \in DOMAIN log
        /\ log[k + 1].run = log[k].run
        /\ log[k + 1].idx = log[k].idx + 1

\* C7: after Create, Repair or Repair falling back to Create, the descriptor
\* holds a downloaded count that is at least the number of artifact files.
C7_DownloadedCoversArtifacts ==
    \A k \in Creates \cup Repairs :
        LET e == log[k] IN
        /\ HasInfo(e.after)
        /\ Has(Info(e.after), "downloaded")
        /\ Info(e.after)["downloaded"] >= e.after.artifacts

\* C8: records are taken one at a time in catalog order, and each one taken
\* gets the one action its directory calls for: skip without directory,
\* Create with a directory and no dataset.json, Repair with both; Create is
\* never applied where dataset.json exists.
C8_DecisionLogic ==
    /\ \A k \in DOMAIN log :
          LET e == log[k] IN
          /\ e.action = (IF ~e.before.exists THEN "skip"
                         ELSE IF ~e.before.json THEN "create"
                         ELSE "repair")
          /\ (e.action = "create" => ~e.before.json)
          /\ e.dataset["dataset_id"] = catalog[e.idx]["dataset_id"]
          /\ IF k > 1 /\ log[k - 1].run = e.run
             THEN e.idx = log[k - 1].idx + 1 /\ log[k - 1].exc = "none"
             ELSE e.idx = 1
    /\ pc = "done" =>
          Cardinality({k \in DOMAIN log : log[k].run = run}) = Len(catalog)

\* C8 witness: one run skipped a record without directory and then applied
\* Create to the next record, whose directory held no dataset.json.
C8_Witness ==
    \E k \in DOMAIN log :
        /\ log[k].action = "skip"
        /\ k + 1 \in Creates
        /\ log[k + 1].run = log[k].run
        /\ log[k + 1].before.exists
        /\ ~log[k + 1].before.json

\* C9: Repair of a descriptor without download_info writes downloaded = N
\* (the entry count, dataset.json included) and total_URLS = the record's URL
\* count, the other stored fields staying in place.
C9_RepairFallback ==
    \A k \in Repairs :
        LET e == log[k] IN
        (e.before.json /\ e.before.file.valid
            /\ ~Has(Doc(e.before), "download_info")) =>
            /\ HasInfo(e.after)
            /\ Info(e.after) = Canonical(Entries(e.before), URLCount(e.dataset))
            /\ Del(Doc(e.after), "download_info") = Doc(e.before)

====
